---- MODULE Spec2Model ----
(***************************************************************************)
(* AquaIntel: the station data synthesizer (frontend/app/charts.tsx), the  *)
(* CSV aggregation and the forecast generator (frontend/utils/csvLoader.ts)*)
(* and the screens: charts, predictions, dashboard and map.                *)
(*                                                                         *)
(* Numbers.  JavaScript numbers are modelled as exact fixed-point values:  *)
(* pH, dissolved oxygen, quality factors, quality indices and water levels *)
(* are integers counting hundredths (pH 7.0 is 700, index 80 is 8000).     *)
(* Noise and the seasonal sinusoid are kept in ten-thousandths until the   *)
(* code rounds them.  Instants are minutes, calendar dates are day numbers.*)
(***************************************************************************)
EXTENDS Integers, Sequences, FiniteSets, TLC

VARIABLES
    qPH, qDO, qPath, qOut,           \* the quality scorer: its input, the variant run, its result
    now, tz,                         \* the device: the clock (an instant) and the time zone
    rng, rngInc,                     \* Math.random: the generator's state and its increment
    hCurrentLevel, hTrend,           \* generateHistoricalData: its arguments,
    hStart, hI, hData, hPc,          \* startDate, the loop counter i, data, and where it stands
    sI, stations, sPc,               \* generateMockStations: the loop counter i, stations
    fHistorical, fDays,              \* generatePredictions: its arguments,
    fI, predictions, fPc,            \* the loop counter i, predictions, and where it stands
    csvData,                         \* processDataIntoStations: its argument,
    cIndex, cStations, cPc,          \* the forEach index, stations, and where it stands
    filteredStations,                \* the charts screen: the filtered list and
    selectedStationIndex,            \* the index of the station shown
    pStations, pSelected,            \* the predictions screen: stations, selectedStation,
    pForecastDays, pPredictions,     \* forecastDays, predictions,
    pLoading, pStorage,              \* loading, the predictions_stations cache entry,
    pLoadPc, pRead,                  \* where loadStations stands and what it read,
    pRequests,                       \* the loadPredictions calls awaiting their response
    dStations, dAnalytics,           \* the dashboard: stations, analytics,
    dLoading, dRefreshing, dError,   \* loading, refreshing, error,
    dStorage,                        \* the stations_data and analytics_data cache entries,
    dInitPc, dLoads,                 \* where initializeApp and each loadData call stand,
    dTicks, dSimRequests,            \* interval ticks so far, simulate-update requests sent
    mStations, mLoading,             \* the map screen: stations, loading,
    mStorage, mLoads                 \* the map_stations cache entry, the loadStations calls

qvars == <<qPH, qDO, qPath, qOut>>
envvars == <<now, tz, rng, rngInc>>
hvars == <<hCurrentLevel, hTrend, hStart, hI, hData, hPc>>
svars == <<sI, stations, sPc>>
fvars == <<fHistorical, fDays, fI, predictions, fPc>>
cvars == <<csvData, cIndex, cStations, cPc>>
datavars == <<qvars, envvars, hvars, svars, fvars, cvars>>
navvars == <<filteredStations, selectedStationIndex>>
predvars == <<pStations, pSelected, pForecastDays, pPredictions, pLoading, pStorage,
              pLoadPc, pRead, pRequests>>
dashvars == <<dStations, dAnalytics, dLoading, dRefreshing, dError, dStorage, dInitPc,
              dLoads, dTicks, dSimRequests>>
mapvars == <<mStations, mLoading, mStorage, mLoads>>
uivars == <<navvars, predvars, dashvars, mapvars>>
vars == <<datavars, uivars>>

None == "none"

----------------------------------------------------------------------------
(* Math.* of the JavaScript runtime, on fixed-point hundredths *)

Max(a, b) == IF a >= b THEN a ELSE b
Min(a, b) == IF a <= b THEN a ELSE b
Abs(a) == IF a < 0 THEN -a ELSE a

\* Math.round(x / unit): the nearest integer, halves towards +infinity
\* (floor(x / unit + 0.5))
RoundDiv(x, unit) == (2 * x + unit) \div (2 * unit)

\* Math.round on a value in hundredths; the result is again in hundredths
MathRound(x) == RoundDiv(x, 100) * 100

----------------------------------------------------------------------------
(* Water-quality scorer, synthesizer variant: charts.tsx calculateWaterQuality *)

\* const pHFactor = Math.max(0, 100 - Math.abs(pH - 7.0) * 20)
PHFactorOneSided(pH) == Max(0, 10000 - (pH - 700) * 20)
PHFactor(pH) == Max(0, 10000 - Abs(pH - 700) * 20)

\* const doFactor = Math.min(100, (dissolvedOxygen / 10) * 100)
SynthDoFactor(do) == Min(10000, (do * 100) \div 10)

\* const qualityIndex = (pHFactor + doFactor) / 2   (exact: both factors are even)
SynthRawIndex(pH, do) == (PHFactor(pH) + SynthDoFactor(do)) \div 2

\* the if / else-if chain of calculateWaterQuality, on the unrounded index
SynthStatus(qualityIndex) ==
    IF qualityIndex >= 8000 THEN "excellent"
    ELSE IF qualityIndex >= 6000 THEN "good"
    ELSE IF qualityIndex >= 4000 THEN "fair"
    ELSE "poor"

calculateWaterQuality(pH, do) ==
    LET qualityIndex == SynthRawIndex(pH, do)
    IN  [ pH |-> pH,
          dissolved_oxygen |-> do,
          quality_index |-> MathRound(qualityIndex),
          status |-> SynthStatus(qualityIndex) ]

----------------------------------------------------------------------------
(* Water-quality scorer, CSV variant: csvLoader.ts *)

\* const doFactor = Math.min(100, dissolvedOxygen * 10)
CsvDoFactor(do) == Min(10000, do * 10)

\* return (pHFactor + doFactor) / 2
calculateQualityIndex(pH, do) == (PHFactor(pH) + CsvDoFactor(do)) \div 2

getQualityStatusShifted(qualityIndex) ==
    IF qualityIndex >= 8000 THEN "excellent"
    ELSE IF qualityIndex >= 6000 THEN "fair"
    ELSE IF qualityIndex >= 4000 THEN "good"
    ELSE "poor"

getQualityStatus(qualityIndex) ==
    IF qualityIndex >= 8000 THEN "excellent"
    ELSE IF qualityIndex >= 6000 THEN "good"
    ELSE IF qualityIndex >= 4000 THEN "fair"
    ELSE "poor"

\* the water_quality object processDataIntoStations builds from the latest row
CsvWaterQuality(pH, do) ==
    LET qualityIndex == calculateQualityIndex(pH, do)
        qualityStatus == getQualityStatus(qualityIndex)
    IN  [ pH |-> pH,
          dissolved_oxygen |-> do,
          quality_index |-> qualityIndex,
          status |-> qualityStatus ]

----------------------------------------------------------------------------
(* Date of the JavaScript runtime.  An instant is a number of minutes (UTC); *)
(* a calendar date (the "YYYY-MM-DD" string) is a day number.  getDate and   *)
(* setDate work in the device's local time, toISOString in UTC.              *)

\* A time zone: its standard offset from UTC in minutes, and whether it keeps
\* daylight-saving time.  A zone that does is one hour ahead from 02:00
\* standard time of day DstStartDay until 02:00 daylight time of DstEndDay.
DstStartDay == 100
DstEndDay == 310

DayMinutes == 24 * 60

Zones ==
    { [std |-> 330, dst |-> FALSE],      \* UTC+5:30, no daylight saving (India)
      [std |-> 0, dst |-> TRUE],         \* UTC+0 with daylight saving
      [std |-> 0 - 300, dst |-> TRUE] }  \* UTC-5 with daylight saving

\* the zone's offset in effect at a UTC instant
OffsetAtInstant(zone, t) ==
    zone.std +
    (IF /\ zone.dst
        /\ t >= DstStartDay * DayMinutes + 120 - zone.std
        /\ t < DstEndDay * DayMinutes + 120 - (zone.std + 60)
     THEN 60 ELSE 0)

\* the zone's offset in effect at a local wall-clock time (a time in the
\* skipped hour takes the offset before the change, a repeated one the earlier)
OffsetAtLocal(zone, w) ==
    zone.std +
    (IF /\ zone.dst
        /\ w >= DstStartDay * DayMinutes + 180
        /\ w < DstEndDay * DayMinutes + 120
     THEN 60 ELSE 0)

LocalOf(zone, t) == t + OffsetAtInstant(zone, t)
UtcOfLocal(zone, w) == w - OffsetAtLocal(zone, w)

\* d.setDate(d.getDate() + k): the local calendar day moves by k, the local
\* time of day stays
SetDate(zone, t, k) == UtcOfLocal(zone, LocalOf(zone, t) + k * DayMinutes)

\* d.toISOString().split("T")[0]: the UTC calendar date
ToISODate(t) == t \div DayMinutes

\* new Date("YYYY-MM-DD"): midnight UTC of that date
ParseISODate(day) == day * DayMinutes

----------------------------------------------------------------------------
(* Math.random: a seeded generator.  Its state r stands for the uniform     *)
(* value r / RandMod in [0, 1); a call returns the state and advances it.   *)
(* With increment 0 the stream is constant (every draw the same outcome,    *)
(* the extreme ones included); otherwise it is a full-period linear         *)
(* congruential stream.                                                     *)

RandMod == 36 * 36 * 36
LcgMul == 36 * 1021 + 1

NextRand(r, inc) == IF inc = 0 THEN r ELSE (LcgMul * r + inc) % RandMod

\* the states the next n calls return, n >= 1, starting with r
RECURSIVE RandStream(_, _, _)
RandStream(r, inc, n) ==
    IF n = 1 THEN << r >>
    ELSE LET head == RandStream(r, inc, n \div 2)
         IN  head \o RandStream(NextRand(head[Len(head)], inc), inc, n - n \div 2)

\* the state after n calls
SkipRand(r, inc, n) == IF n = 0 THEN r ELSE NextRand(RandStream(r, inc, n)[n], inc)

\* Math.random() * span, in ten-thousandths (span in ten-thousandths)
Uniform(r, span) == (r * span) \div RandMod

\* round(10000 * sin(2 * pi * k / 365)) for k = 0 .. 91
SinTable ==
    << 0, 172, 344, 516, 688, 860, 1031, 1202, 1373, 1543, 1713, 1882,
       2051, 2219, 2387, 2554, 2720, 2885, 3049, 3213, 3375, 3537, 3697, 3857,
       4015, 4172, 4328, 4482, 4636, 4787, 4938, 5087, 5234, 5380, 5524, 5667,
       5808, 5947, 6085, 6220, 6354, 6486, 6616, 6744, 6871, 6995, 7117, 7236,
       7354, 7470, 7583, 7694, 7803, 7909, 8014, 8115, 8215, 8312, 8406, 8498,
       8588, 8675, 8759, 8841, 8920, 8996, 9070, 9141, 9210, 9275, 9338, 9399,
       9456, 9511, 9562, 9611, 9657, 9701, 9741, 9778, 9813, 9845, 9873, 9899,
       9922, 9942, 9959, 9973, 9984, 9993, 9998, 10000 >>

\* Math.sin((k / 365) * 2 * Math.PI), in ten-thousandths
Sin365(k) == SinTable[k + 1]

----------------------------------------------------------------------------
(* Arrays of the JavaScript runtime *)

\* a[a.length - 1]: the last element, undefined for an empty array
Undefined == [undefined |-> TRUE]
FirstElement(a) == IF Len(a) = 0 THEN Undefined ELSE a[1]
LastElement(a) == IF Len(a) = 0 THEN Undefined ELSE a[Len(a)]

----------------------------------------------------------------------------
(* Historical series: charts.tsx generateHistoricalData *)

\* the length of the series: for (let i = 0; i < 90; i++)
HistoryDays == 90

\* startDate.setDate(startDate.getDate() - 90)
HistStartDate(zone, t) == SetDate(zone, t, 0 - 90)

\* baseLevel after "Apply trend", in ten-thousandths; r is the noise draw
TrendedLevelWideNoise(currentLevel, trend, i, r) ==
    IF trend = "falling"
    THEN currentLevel * 100 + (90 - i) * 200 + Uniform(r, 40000) - 20000
    ELSE IF trend = "rising"
    THEN currentLevel * 100 - (90 - i) * 200 + Uniform(r, 40000) - 20000
    ELSE currentLevel * 100 + Uniform(r, 20000) - 10000
TrendedLevelSwapped(currentLevel, trend, i, r) ==
    IF trend = "falling"
    THEN currentLevel * 100 - (90 - i) * 200 + Uniform(r, 10000) - 5000
    ELSE IF trend = "rising"
    THEN currentLevel * 100 + (90 - i) * 200 + Uniform(r, 10000) - 5000
    ELSE currentLevel * 100 + Uniform(r, 20000) - 10000
TrendedLevel(currentLevel, trend, i, r) ==
    IF trend = "falling"
    THEN currentLevel * 100 + (90 - i) * 200 + Uniform(r, 10000) - 5000
    ELSE IF trend = "rising"
    THEN currentLevel * 100 - (90 - i) * 200 + Uniform(r, 10000) - 5000
    ELSE currentLevel * 100 + Uniform(r, 20000) - 10000

\* baseLevel = Math.max(0.5, baseLevel)
ClampLevelNone(base) == base
ClampLevel(base) == Max(5000, base)

\* level = baseLevel + 0.5 * sin(...), then Math.round(level * 100) / 100
HistLevelFullSeason(currentLevel, trend, i, r) ==
    RoundDiv(ClampLevel(TrendedLevel(currentLevel, trend, i, r)) + Sin365(i), 100)
HistLevel(currentLevel, trend, i, r) ==
    RoundDiv(ClampLevel(TrendedLevel(currentLevel, trend, i, r)) + Sin365(i) \div 2, 100)

\* date = new Date(startDate); date.setDate(startDate.getDate() + i);
\* date.toISOString().split("T")[0]
HistDate(zone, start, i) == ToISODate(SetDate(zone, start, i))

\* the object pushed in iteration i; the five draws are taken in source
\* order: level, temperature, rainfall, pH, dissolved_oxygen
HistPoint(currentLevel, trend, zone, start, i, r, inc) ==
    LET r2 == NextRand(r, inc)
        r3 == NextRand(r2, inc)
        r4 == NextRand(r3, inc)
        r5 == NextRand(r4, inc)
    IN  [ date |-> HistDate(zone, start, i),
          level |-> HistLevel(currentLevel, trend, i, r),
          temperature |-> RoundDiv(200000 + 15 * Uniform(r2, 10000) + 5 * Sin365(i), 1000) * 10,
          rainfall |-> RoundDiv(500 * r3, RandMod) * 10,
          pH |-> RoundDiv(65 * RandMod + 20 * r4, RandMod) * 10,
          dissolved_oxygen |-> RoundDiv(40 * RandMod + 60 * r5, RandMod) * 10 ]

\* generateHistoricalData(currentLevel, trend), called at instant t with the
\* generator in state r: data after the 90 iterations, iteration i taking
\* the draws 5 * i + 1 .. 5 * i + 5
generateHistoricalData(currentLevel, trend, zone, t, r, inc) ==
    LET start == HistStartDate(zone, t)
        draws == RandStream(r, inc, 5 * HistoryDays)
    IN  [ k \in 1..HistoryDays |->
            HistPoint(currentLevel, trend, zone, start, k - 1, draws[5 * (k - 1) + 1], inc) ]

----------------------------------------------------------------------------
(* Strings, as sequences of one-character strings *)

Base36Chars ==
    << "0", "1", "2", "3", "4", "5", "6", "7", "8", "9", "a", "b",
       "c", "d", "e", "f", "g", "h", "i", "j", "k", "l", "m", "n",
       "o", "p", "q", "r", "s", "t", "u", "v", "w", "x", "y", "z" >>

UpperChars ==
    << "0", "1", "2", "3", "4", "5", "6", "7", "8", "9", "A", "B",
       "C", "D", "E", "F", "G", "H", "I", "J", "K", "L", "M", "N",
       "O", "P", "Q", "R", "S", "T", "U", "V", "W", "X", "Y", "Z" >>

\* String(n) for n >= 0
RECURSIVE DecimalString(_)
DecimalString(n) ==
    IF n < 10 THEN << Base36Chars[n + 1] >>
    ELSE Append(DecimalString(n \div 10), Base36Chars[(n % 10) + 1])

\* s.padStart(width, "0")
RECURSIVE PadStartZero(_, _)
PadStartZero(s, width) ==
    IF Len(s) >= width THEN s ELSE PadStartZero(<< "0" >> \o s, width)

\* s.substring(from, to), 0 <= from <= to
Substring(s, from, to) == SubSeq(s, Min(from, Len(s)) + 1, Min(to, Len(s)))

\* s.toUpperCase() on digits and lower-case letters
ToUpperCase(s) ==
    [ k \in 1..Len(s) |->
        IF \E c \in 1..36 : Base36Chars[c] = s[k]
        THEN UpperChars[CHOOSE c \in 1..36 : Base36Chars[c] = s[k]]
        ELSE s[k] ]

\* the base-36 digits of the fraction r / RandMod, without trailing zeros
Base36Fraction(r) ==
    LET d1 == r \div (36 * 36)
        d2 == (r \div 36) % 36
        d3 == r % 36
        all == << Base36Chars[d1 + 1], Base36Chars[d2 + 1], Base36Chars[d3 + 1] >>
        len == IF d3 # 0 THEN 3 ELSE IF d2 # 0 THEN 2 ELSE IF d1 # 0 THEN 1 ELSE 0
    IN  SubSeq(all, 1, len)

\* Math.random().toString(36): "0" for zero, else "0." and the digits
RandomToString36(r) ==
    IF r = 0 THEN << "0" >> ELSE << "0", "." >> \o Base36Fraction(r)

----------------------------------------------------------------------------
(* Station population: charts.tsx generateStationId, generateMockStations *)

\* for (let i = 0; i < 100; i++)
StationCount == 100
\* INDIAN_LOCATIONS.length, STATION_TYPES.length
NumLocations == 67
NumStationTypes == 20

\* const randomString = Math.random().toString(36).substring(2, 10).toUpperCase()
RandomString(r) == ToUpperCase(Substring(RandomToString36(r), 2, 10))

generateStationIdUnpadded(index, r) ==
    << "D", "W", "L", "R" >> \o DecimalString(index) \o Substring(RandomString(r), 0, 4)

\* `${prefix}${String(index).padStart(3, "0")}${randomString.substring(0, 4)}`
generateStationId(index, r) ==
    << "D", "W", "L", "R" >>
        \o PadStartZero(DecimalString(index), 3)
        \o Substring(RandomString(r), 0, 4)

\* Math.random() < 0.3 ? "falling" : Math.random() < 0.6 ? "rising" : "stable"
SynthTrend(r1, r2) ==
    IF r1 * 10 < 3 * RandMod THEN "falling"
    ELSE IF r2 * 10 < 6 * RandMod THEN "rising"
    ELSE "stable"

\* Math.round((Math.random() * 45 + 5) * 100) / 100
SynthCurrentLevelWide(r) == RoundDiv(5000 * r + 500 * RandMod, RandMod)
SynthCurrentLevel(r) == RoundDiv(4500 * r + 500 * RandMod, RandMod)

\* Math.random() < 0.85 ? "active" : Math.random() < 0.95 ? "maintenance" : "inactive"
SynthOperationalStatus(r1, r2) ==
    IF r1 * 100 < 85 * RandMod THEN "active"
    ELSE IF r2 * 100 < 95 * RandMod THEN "maintenance"
    ELSE "inactive"

\* One iteration of the loop of generateMockStations, for counter i, at
\* instant t, with the generator in state r: the station pushed and the
\* generator's state afterwards.  Draws are taken in source order.
SynthStation(i, zone, t, r, inc) ==
    LET rLat == r
        rLng == NextRand(rLat, inc)
        rTrend1 == NextRand(rLng, inc)
        rTrend2 == IF rTrend1 * 10 < 3 * RandMod THEN rTrend1 ELSE NextRand(rTrend1, inc)
        trend == SynthTrend(rTrend1, rTrend2)
        rLevel == NextRand(rTrend2, inc)
        currentLevel == SynthCurrentLevel(rLevel)
        rStatus1 == NextRand(rLevel, inc)
        rStatus2 == IF rStatus1 * 100 < 85 * RandMod THEN rStatus1 ELSE NextRand(rStatus1, inc)
        rType == NextRand(rStatus2, inc)
        rHist == NextRand(rType, inc)
        historicalData == generateHistoricalData(currentLevel, trend, zone, t, rHist, inc)
        latestData == LastElement(historicalData)
        waterQuality == calculateWaterQuality(latestData.pH, latestData.dissolved_oxygen)
        rId == SkipRand(rHist, inc, 5 * HistoryDays)
    IN  [ station |->
            [ station_id |-> generateStationId(i + 1, rId),
              name |-> [type |-> (rType * NumStationTypes) \div RandMod, number |-> i + 1],
              location |-> i % NumLocations,
              current_level |-> currentLevel,
              status |-> SynthOperationalStatus(rStatus1, rStatus2),
              trend |-> trend,
              last_updated |-> t,
              latOffset |-> Uniform(rLat, 1000) - 500,
              lngOffset |-> Uniform(rLng, 1000) - 500,
              historical_data |-> historicalData,
              water_quality |-> waterQuality ],
          rng |-> NextRand(rId, inc) ]

----------------------------------------------------------------------------
(* Forecast: csvLoader.ts calculateTrendFromData, generatePredictions.     *)
(* A row's Date is a day number, its Water_Level_m is in hundredths.       *)

\* s[lo] + ... + s[hi], what a loop of += leaves in its accumulator
RECURSIVE SumSeq(_, _, _)
SumSeq(s, lo, hi) ==
    IF lo > hi THEN 0
    ELSE IF lo = hi THEN s[lo]
    ELSE LET mid == (lo + hi) \div 2
         IN  SumSeq(s, lo, mid) + SumSeq(s, mid + 1, hi)

\* the four sums after the loop for (let i = 0; i < n; i++) of
\* calculateTrendFromData; levels[i] of the code is levels[i + 1] here
TrendSums(levels) ==
    LET n == Len(levels)
    IN  [ sumX |-> SumSeq([k \in 1..n |-> k - 1], 1, n),
          sumY |-> SumSeq(levels, 1, n),
          sumXY |-> SumSeq([k \in 1..n |-> (k - 1) * levels[k]], 1, n),
          sumXX |-> SumSeq([k \in 1..n |-> (k - 1) * (k - 1)], 1, n) ]

\* the slope as the fraction num / den (levels in hundredths, so hundredths a
\* row), without the guard of the first line: for n = 1 and n = 0 this is 0 / 0
calculateTrendFromDataUnguarded(levels) ==
    LET n == Len(levels)
        s == TrendSums(levels)
    IN  [ num |-> n * s.sumXY - s.sumX * s.sumY,
          den |-> n * s.sumXX - s.sumX * s.sumX ]

\* the slope returned, as the fraction num / den: `return 0` is 0 / 1, and
\* the last line divides
\*     (n * sumXY - sumX * sumY) / (n * sumXX - sumX * sumX)
calculateTrendFromData(levels) ==
    IF Len(levels) < 2 THEN [num |-> 0, den |-> 1]
    ELSE
        LET n == Len(levels)
            s == TrendSums(levels)
        IN  [ num |-> n * s.sumXY - s.sumX * s.sumY,
              den |-> n * s.sumXX - s.sumX * s.sumX ]

\* trend * i * 0.01 in ten-thousandths (the slope is in hundredths per index):
\* floor(num * i / den), computed without overflowing
TrendFactor(trend, i) ==
    (trend.num \div trend.den) * i + ((trend.num % trend.den) * i) \div trend.den

\* (Math.random() - 0.5) * 0.05, in ten-thousandths
RandomFactorWide(r) == Uniform(r, 5000) - 2500
RandomFactor(r) == Uniform(r, 500) - 250

\* Math.max(0, ...) around the predicted level
ClampPredictionNone(level) == level
ClampPrediction(level) == Max(0, level)

\* Math.max(0.5, 1 - i * 0.01), in hundredths
ConfidenceNoFloor(i) == 100 - i
Confidence(i) == Max(50, 100 - i)

\* reading a property of a value throws a TypeError when the value is undefined
PropertyReadThrowsNever(object) == FALSE
PropertyReadThrows(object) == object = Undefined

\* predDate = new Date(lastDate); predDate.setDate(predDate.getDate() + i);
\* predDate.toISOString().split("T")[0]
PredDate(zone, lastDate, i) == ToISODate(SetDate(zone, lastDate, i))

\* the object pushed in iteration i; r is the draw of randomFactor
PredictionPoint(historicalData, zone, i, r) ==
    LET levels == [k \in 1..Len(historicalData) |-> historicalData[k].Water_Level_m]
        lastLevel == LastElement(levels)
        trend == calculateTrendFromData(levels)
        lastDate == ParseISODate(LastElement(historicalData).Date)
        trendFactor == TrendFactor(trend, i)
        seasonalFactor == Sin365(i) \div 10
        randomFactor == RandomFactor(r)
        predictedLevel ==
            ClampPrediction(lastLevel * 100 + trendFactor + seasonalFactor + randomFactor)
    IN  [ date |-> PredDate(zone, lastDate, i),
          predicted_level |-> RoundDiv(predictedLevel, 10),
          confidence |-> Confidence(i) ]

----------------------------------------------------------------------------
(* CSV aggregation: csvLoader.ts processDataIntoStations.  A row is a      *)
(* record of Date (a day number) and the readings in hundredths.           *)

\* STATION_LOCATIONS.length
NumCsvLocations == 5

\* Math.ceil(a / b) for a >= 0, b > 0
FloorDiv(a, b) == a \div b
CeilDiv(a, b) == (a + b - 1) \div b

\* a.slice(start, end) for 0 <= start: empty when start >= end
Slice(a, start, end) ==
    IF Min(start, Len(a)) >= Min(end, Len(a)) THEN << >>
    ELSE SubSeq(a, Min(start, Len(a)) + 1, Min(end, Len(a)))

\* a.slice(-k): the last k elements, all of them when there are fewer
SliceLast(a, k) == SubSeq(a, Max(1, Len(a) - k + 1), Len(a))

\* const recentData = stationData.slice(-5)
RecentDataWhole(stationData) == stationData
RecentData(stationData) == SliceLast(stationData, 5)

\* let trend = "stable"; if (recentData.length > 1) { ... }, where
\* lastLevel > firstLevel * 1.05 and lastLevel < firstLevel * 0.95 are
\* compared exactly
CsvTrend(recentData) ==
    IF Len(recentData) > 1
    THEN LET firstLevel == recentData[1].Water_Level_m
             lastLevel == recentData[Len(recentData)].Water_Level_m
         IN  IF lastLevel * 100 > firstLevel * 105 THEN "rising"
             ELSE IF lastLevel * 100 < firstLevel * 95 THEN "falling"
             ELSE "stable"
    ELSE "stable"

\* stationData of the forEach callback for `index`
StationData(rows, index) ==
    LET dataPerStation == CeilDiv(Len(rows), NumCsvLocations)
        startIndex == index * dataPerStation
        endIndex == Min(startIndex + dataPerStation, Len(rows))
    IN  Slice(rows, startIndex, endIndex)

\* the object pushed for a non-empty slice; location stands for the fields
\* spread from STATION_LOCATIONS[index]
CsvStation(index, stationData) ==
    LET latestData == LastElement(stationData)
    IN  [ location |-> index,
          current_level |-> latestData.Water_Level_m,
          trend |-> CsvTrend(RecentData(stationData)),
          last_updated |-> latestData.Date,
          historical_data |-> stationData,
          water_quality |-> CsvWaterQuality(latestData.pH, latestData.Dissolved_Oxygen_mg_L) ]

----------------------------------------------------------------------------
(* The backend's payloads and the device's key-value store *)

\* null: a state that holds nothing, a cache key never written
Null == [null |-> TRUE]

\* JSON.stringify(value) and JSON.parse(text): the text of a value is kept
\* apart from the value, and from null
Stringify(value) == [json |-> value]
Parse(text) == text.json

\* the body of GET /api/stations in version v of the backend's data: no
\* station in version 0, else two stations whose levels depend on v
StationsPayload(v) ==
    IF v = 0 THEN << >>
    ELSE << [station_id |-> "DWLR001", current_level |-> 1000 + v, trend |-> "rising"],
            [station_id |-> "DWLR002", current_level |-> 2000 + v, trend |-> "falling"] >>

\* the body of GET /api/analytics/summary in version v
AnalyticsPayload(v) ==
    [total_stations |-> Len(StationsPayload(v)), active_stations |-> v]

\* the body of GET /api/stations/<stationId>/predictions?days=<days>: its
\* predictions, each point marked with the request it answers
PredictionsPayload(stationId, days) ==
    << [station_id |-> stationId, days |-> days, day |-> 1],
       [station_id |-> stationId, days |-> days, day |-> days] >>

----------------------------------------------------------------------------
(* The predictions screen: predictions.tsx PredictionsScreen *)

\* useEffect(..., [selectedStation, forecastDays]): when either changed and a
\* station is selected, loadPredictions runs up to its fetch: the requests
\* in flight after the render that shows `selected` and `days`
AfterEffect(requests, changed, selected, days) ==
    IF changed /\ selected # Null
    THEN Append(requests, [station_id |-> selected.station_id, days |-> days])
    ELSE requests

\* setStations(data); if (data.length > 0) setSelectedStation(data[0])
SelectedAfterLoad(data, selected) == IF Len(data) > 0 THEN data[1] ELSE selected

\* if (response.ok) { setPredictions(data.predictions || []) }; a response
\* that is not OK and a failed fetch leave predictions as they are
PredictionsAfter(shown, request, outcome) ==
    CASE outcome = "ok" -> PredictionsPayload(request.station_id, request.days)
      [] outcome = "ok_without_predictions" -> << >>
      [] OTHER -> shown

----------------------------------------------------------------------------
(* The dashboard (index.tsx GroundwaterMonitoringApp) and the map screen    *)
(* (MapScreen).  An async function runs from one await to the next without  *)
(* interruption; AsyncStorage serves its calls in the order they are made,  *)
(* so a setItem takes effect and a getItem reads when it is called, and the *)
(* caller resumes in a later step.                                          *)

\* a loadData or loadStations call that is not running
IdleLoad == [pc |-> "idle", by |-> None, st |-> << >>, an |-> Null, cst |-> Null, can |-> Null]

\* the value of `loading` and of `stations` in the interval callback of
\* useEffect(() => {...}, []): the effect runs after the first render only,
\* so the callback and the simulateRealTimeUpdate it calls keep that
\* render's constants, useState(true) and useState([])
EffectLoading == TRUE
EffectStations == << >>

\* setStations(prevStations => prevStations.map(station =>
\*   station.station_id === updateData.station_id
\*     ? { ...station, current_level: updateData.new_level } : station))
ApplyUpdate(prevStations, updateData) ==
    [ k \in 1..Len(prevStations) |->
        IF prevStations[k].station_id = updateData.station_id
        THEN [prevStations[k] EXCEPT !.current_level = updateData.new_level]
        ELSE prevStations[k] ]

\* if (cached) setStations(JSON.parse(cached)): the stations shown after the
\* cache was read
ShownFromCache(cached, shown) == IF cached # Null THEN Parse(cached) ELSE shown

----------------------------------------------------------------------------
(* The filterable charts screen: charts.tsx ChartsScreen *)

\* handleFilter: if (stations.length > 0) setSelectedStationIndex(0)
HandleFilterKeepIndex(list, index) == index
HandleFilterIndex(list, index) == IF Len(list) > 0 THEN 0 ELSE index

\* the updater of nextStation: prevIndex === length - 1 ? 0 : prevIndex + 1
NextIndex(prevIndex, length) == IF prevIndex = length - 1 THEN 0 ELSE prevIndex + 1

\* the updater of prevStation: prevIndex === 0 ? length - 1 : prevIndex - 1
PrevIndex(prevIndex, length) == IF prevIndex = 0 THEN length - 1 ELSE prevIndex - 1

\* selectedStationIndex after nextStation(): unchanged for an empty list
NextStationIndex(list, index) ==
    IF Len(list) > 0 THEN NextIndex(index, Len(list)) ELSE index

\* selectedStationIndex after prevStation(): unchanged for an empty list
PrevStationIndex(list, index) ==
    IF Len(list) > 0 THEN PrevIndex(index, Len(list)) ELSE index

----------------------------------------------------------------------------
(* What a state machine that does not use a group of variables leaves it at *)

QIdle == qPH = 0 /\ qDO = 0 /\ qPath = None /\ qOut = None
EnvIdle == now = 0 /\ tz = [std |-> 0, dst |-> FALSE] /\ rng = 0 /\ rngInc = 0
HIdle ==
    /\ hCurrentLevel = 0
    /\ hTrend = "stable"
    /\ hStart = 0
    /\ hI = 0
    /\ hData = << >>
    /\ hPc = "idle"
SIdle == sI = 0 /\ stations = << >> /\ sPc = "idle"
FIdle ==
    /\ fHistorical = << >>
    /\ fDays = 0
    /\ fI = 0
    /\ predictions = << >>
    /\ fPc = "idle"
CIdle == csvData = << >> /\ cIndex = 0 /\ cStations = << >> /\ cPc = "idle"
DataIdle == QIdle /\ EnvIdle /\ HIdle /\ SIdle /\ FIdle /\ CIdle
NavIdle == filteredStations = << >> /\ selectedStationIndex = 0
PredIdle ==
    /\ pStations = << >>
    /\ pSelected = Null
    /\ pForecastDays = 0
    /\ pPredictions = << >>
    /\ pLoading = FALSE
    /\ pStorage = Null
    /\ pLoadPc = "idle"
    /\ pRead = Null
    /\ pRequests = << >>
DashIdle ==
    /\ dStations = << >>
    /\ dAnalytics = Null
    /\ dLoading = FALSE
    /\ dRefreshing = FALSE
    /\ dError = Null
    /\ dStorage = [stations_data |-> Null, analytics_data |-> Null]
    /\ dInitPc = "idle"
    /\ dLoads = << >>
    /\ dTicks = 0
    /\ dSimRequests = << >>
MapIdle ==
    /\ mStations = << >>
    /\ mLoading = FALSE
    /\ mStorage = Null
    /\ mLoads = << >>
UiIdle == NavIdle /\ PredIdle /\ DashIdle /\ MapIdle

----------------------------------------------------------------------------
(* The scorer as a state machine: an input pair, then one of the variants *)

\* inputs lie on the 0.1 grid the synthesizer rounds to, and reach outside
\* the physical domain: pH from -PhBelow10/10 to MaxPH10/10, dissolved oxygen
\* from -DoBelow10/10 to MaxDO10/10
PhBelow10 == 10
MaxPH10 == 150
DoBelow10 == 30
MaxDO10 == 130

PHInputs == { 10 * k : k \in (0 - PhBelow10)..MaxPH10 }
DOInputs == { 10 * k : k \in (0 - DoBelow10)..MaxDO10 }

QInit ==
    /\ UiIdle
    /\ qPH \in PHInputs
    /\ qDO \in DOInputs
    /\ qPath = None
    /\ qOut = None
    /\ EnvIdle
    /\ HIdle
    /\ SIdle
    /\ FIdle
    /\ CIdle

ScoreSynth ==
    /\ qPath = None
    /\ qOut' = calculateWaterQuality(qPH, qDO)
    /\ qPath' = "synth"
    /\ UNCHANGED <<qPH, qDO, envvars, hvars, svars, fvars, cvars, uivars>>

ScoreCsv ==
    /\ qPath = None
    /\ qOut' = CsvWaterQuality(qPH, qDO)
    /\ qPath' = "csv"
    /\ UNCHANGED <<qPH, qDO, envvars, hvars, svars, fvars, cvars, uivars>>

QNext == ScoreSynth \/ ScoreCsv

QualitySpec == QInit /\ [][QNext]_vars

----------------------------------------------------------------------------
(* The device and the random source a run starts from *)

\* the clock: 12:30 and 23:30 UTC of a day after the change to daylight
\* time, of a day after the change back, and of a day far from both
Nows ==
    { day * DayMinutes + time :
        day \in {DstStartDay + 30, DstEndDay + 30, DstEndDay + 150},
        time \in {750, 1410} }

\* seeds: the two extreme outcomes, the middle one (with a constant stream,
\* every noise term at its mean), and MaxSeeds others
MaxSeeds == 2
Seeds == {0, RandMod \div 2, RandMod - 1} \cup { (k * 649) % RandMod : k \in 1..MaxSeeds }

Trends == {"falling", "rising", "stable"}

RngInit ==
    /\ rng \in Seeds
    /\ rngInc \in {0, 7919}

----------------------------------------------------------------------------
(* generateHistoricalData as a state machine: one step per loop iteration *)

\* current levels passed in, in hundredths: negative, near zero, and the ends
\* of the synthesizer's range
HistCurrentLevels == {0 - 300, 20, 500, 5000}

HInit ==
    /\ UiIdle
    /\ now \in Nows
    /\ tz \in Zones
    /\ RngInit
    /\ hCurrentLevel \in HistCurrentLevels
    /\ hTrend \in Trends
    /\ hStart = 0
    /\ hI = 0
    /\ hData = << >>
    /\ hPc = "start"
    /\ QIdle
    /\ SIdle
    /\ FIdle
    /\ CIdle

\* const data = []; const startDate = new Date(); startDate.setDate(...)
HistBegin ==
    /\ hPc = "start"
    /\ hStart' = HistStartDate(tz, now)
    /\ hPc' = "loop"
    /\ UNCHANGED <<hCurrentLevel, hTrend, hI, hData, qvars, envvars, svars, fvars, cvars, uivars>>

\* one iteration of for (let i = 0; i < 90; i++)
HistStep ==
    /\ hPc = "loop"
    /\ hI < HistoryDays
    /\ hData' = Append(hData, HistPoint(hCurrentLevel, hTrend, tz, hStart, hI, rng, rngInc))
    /\ rng' = SkipRand(rng, rngInc, 5)
    /\ hI' = hI + 1
    /\ UNCHANGED <<hCurrentLevel, hTrend, hStart, hPc, qvars, now, tz, rngInc, svars, fvars, cvars, uivars>>

\* return data
HistReturn ==
    /\ hPc = "loop"
    /\ hI >= HistoryDays
    /\ hPc' = "done"
    /\ UNCHANGED <<hCurrentLevel, hTrend, hStart, hI, hData, qvars, envvars, svars, fvars, cvars, uivars>>

HNext == HistBegin \/ HistStep \/ HistReturn

HistSpec == HInit /\ [][HNext]_vars

----------------------------------------------------------------------------
(* generateMockStations as a state machine: one step per station *)

SInit ==
    /\ UiIdle
    /\ now = (DstEndDay + 30) * DayMinutes + 1410
    /\ tz \in Zones
    /\ RngInit
    /\ sI = 0
    /\ stations = << >>
    /\ sPc = "loop"
    /\ QIdle
    /\ HIdle
    /\ FIdle
    /\ CIdle

\* one iteration of for (let i = 0; i < 100; i++), stations.push included
SynthStep ==
    /\ sPc = "loop"
    /\ sI < StationCount
    /\ LET made == SynthStation(sI, tz, now, rng, rngInc)
       IN  /\ stations' = Append(stations, made.station)
           /\ rng' = made.rng
    /\ sI' = sI + 1
    /\ UNCHANGED <<sPc, now, tz, rngInc, qvars, hvars, fvars, cvars, uivars>>

\* return stations
SynthReturn ==
    /\ sPc = "loop"
    /\ sI >= StationCount
    /\ sPc' = "done"
    /\ UNCHANGED <<sI, stations, envvars, qvars, hvars, fvars, cvars, uivars>>

SNext == SynthStep \/ SynthReturn

SynthSpec == SInit /\ [][SNext]_vars

----------------------------------------------------------------------------
(* generatePredictions as a state machine: one step per forecast day *)

\* the longest of the short series and the longest horizon tried
MaxSeriesLen == 5
MaxForecastDays == 52

\* the date of the last row: shortly before the change to daylight time,
\* shortly before the change back, and far from both
LastDates == {DstStartDay - 3, DstEndDay - 3, DstEndDay + 60}

\* level[k] of a series of n rows: flat at 10.00, falling or rising by 0.50 a
\* row, falling steeply to 0.02, or falling linearly from 20.00 to 10.00
SeriesLevel(shape, n, k) ==
    CASE shape = "flat" -> 1000
      [] shape = "falling" -> 1000 + 50 * (n - k)
      [] shape = "rising" -> 1000 - 50 * (n - k)
      [] shape = "linear" -> 1000 + RoundDiv(1000 * (n - k), n - 1)
      [] OTHER -> 2 + 900 * (n - k)

\* rows of consecutive dates ending at lastDate
Series(shape, n, lastDate) ==
    [ k \in 1..n |->
        [ Date |-> lastDate - (n - k), Water_Level_m |-> SeriesLevel(shape, n, k) ] ]

\* the series tried: the short ones of every shape, the empty one included,
\* and the linear fall over as many rows as the synthesizer's history has
SeriesInputs ==
    { Series(shape, n, lastDate) :
        shape \in {"flat", "falling", "rising", "steep"},
        n \in 0..MaxSeriesLen,
        lastDate \in LastDates }
    \cup { Series("linear", HistoryDays, lastDate) : lastDate \in LastDates }

\* the horizons tried: none, short ones, the default (days: number = 30), and
\* the longest
ForecastDays == {0, 1, 2, 7, 30, MaxForecastDays}

FInit ==
    /\ UiIdle
    /\ now = 0
    /\ tz \in Zones
    /\ RngInit
    /\ fHistorical \in SeriesInputs
    /\ fDays \in ForecastDays
    /\ fI = 0
    /\ predictions = << >>
    /\ fPc = "start"
    /\ QIdle
    /\ HIdle
    /\ SIdle
    /\ CIdle

\* the statements before the loop: levels, lastLevel, trend, predictions = [],
\* and lastDate = new Date(historicalData[historicalData.length - 1].Date),
\* which throws when the series is empty; then let i = 1
PredictBegin ==
    /\ fPc = "start"
    /\ IF PropertyReadThrows(LastElement(fHistorical))
       THEN fPc' = "threw" /\ fI' = fI
       ELSE fPc' = "loop" /\ fI' = 1
    /\ UNCHANGED <<fHistorical, fDays, predictions, envvars, qvars, hvars, svars, cvars, uivars>>

\* one iteration of for (let i = 1; i <= days; i++)
PredictStep ==
    /\ fPc = "loop"
    /\ fI <= fDays
    /\ predictions' = Append(predictions, PredictionPoint(fHistorical, tz, fI, rng))
    /\ rng' = NextRand(rng, rngInc)
    /\ fI' = fI + 1
    /\ UNCHANGED <<fHistorical, fDays, fPc, now, tz, rngInc, qvars, hvars, svars, cvars, uivars>>

\* return predictions
PredictReturn ==
    /\ fPc = "loop"
    /\ fI > fDays
    /\ fPc' = "done"
    /\ UNCHANGED <<fHistorical, fDays, fI, predictions, envvars, qvars, hvars, svars, cvars, uivars>>

FNext == PredictBegin \/ PredictStep \/ PredictReturn

ForecastSpec == FInit /\ [][FNext]_vars

----------------------------------------------------------------------------
(* processDataIntoStations as a state machine: one step per catalog entry *)

\* the most rows tried: enough for slices longer than the trend window
MaxCsvRows == 27

\* levels of the rows: a water level below zero, zero, and levels around
\* 1.00 that sit on and next to the 5 % band
CsvLevels == {0 - 100, 0, 94, 95, 100, 105, 106}

\* row k (from 1) of an input whose levels repeat the three levels of motif
CsvRow(motif, k) ==
    [ Date |-> k,
      Water_Level_m |-> motif[(k % 3) + 1],
      Temperature_C |-> 2000 + 10 * (k % 11),
      Rainfall_mm |-> 100 * (k % 4),
      pH |-> 600 + 10 * ((k * 7) % 21),
      Dissolved_Oxygen_mg_L |-> 50 * ((k * 5) % 23) ]

CsvInputs ==
    { [ k \in 1..n |-> CsvRow(motif, k) ] :
        motif \in CsvLevels \X CsvLevels \X CsvLevels, n \in 0..MaxCsvRows }

CInit ==
    /\ UiIdle
    /\ csvData \in CsvInputs
    /\ cIndex = 0
    /\ cStations = << >>
    /\ cPc = "loop"
    /\ QIdle
    /\ EnvIdle
    /\ HIdle
    /\ SIdle
    /\ FIdle

\* one call of the forEach callback: an empty slice returns without pushing
ProcessStep ==
    /\ cPc = "loop"
    /\ cIndex < NumCsvLocations
    /\ LET stationData == StationData(csvData, cIndex)
       IN  cStations' = IF Len(stationData) = 0 THEN cStations
                        ELSE Append(cStations, CsvStation(cIndex, stationData))
    /\ cIndex' = cIndex + 1
    /\ UNCHANGED <<csvData, cPc, qvars, envvars, hvars, svars, fvars, uivars>>

\* return stations
ProcessReturn ==
    /\ cPc = "loop"
    /\ cIndex >= NumCsvLocations
    /\ cPc' = "done"
    /\ UNCHANGED <<csvData, cIndex, cStations, qvars, envvars, hvars, svars, fvars, uivars>>

CNext == ProcessStep \/ ProcessReturn

CsvSpec == CInit /\ [][CNext]_vars

----------------------------------------------------------------------------
(* The charts screen as a state machine: one step per handler call *)

\* the number of stations in MOCK_STATIONS; a station is its catalog number
MaxFiltered == 6

\* the elements of a set of numbers in ascending order
RECURSIVE SortedSeq(_)
SortedSeq(set) ==
    IF set = {} THEN << >>
    ELSE LET least == CHOOSE x \in set : \A y \in set : x <= y
         IN  << least >> \o SortedSeq(set \ {least})

\* what a filter can pass to onFilter: the catalog's stations that match, in
\* catalog order
FilterResults == { SortedSeq(set) : set \in SUBSET (1..MaxFiltered) }

\* useState(MOCK_STATIONS), useState(0)
NavInit ==
    /\ filteredStations = SortedSeq(1..MaxFiltered)
    /\ selectedStationIndex = 0
    /\ DataIdle
    /\ PredIdle
    /\ DashIdle
    /\ MapIdle

handleFilter ==
    /\ \E list \in FilterResults :
          /\ filteredStations' = list
          /\ selectedStationIndex' = HandleFilterIndex(list, selectedStationIndex)
    /\ UNCHANGED <<datavars, predvars, dashvars, mapvars>>

nextStation ==
    /\ selectedStationIndex' = NextStationIndex(filteredStations, selectedStationIndex)
    /\ UNCHANGED <<filteredStations, datavars, predvars, dashvars, mapvars>>

prevStation ==
    /\ selectedStationIndex' = PrevStationIndex(filteredStations, selectedStationIndex)
    /\ UNCHANGED <<filteredStations, datavars, predvars, dashvars, mapvars>>

NavNext == handleFilter \/ nextStation \/ prevStation

NavSpec == NavInit /\ [][NavNext]_vars

----------------------------------------------------------------------------
(* The predictions screen as a state machine: one step per handler call and *)
(* per resumption after an await                                            *)

\* versions of the backend's data, and loadPredictions calls that can wait
\* for their response at once
MaxPayload == 2
MaxInFlight == 2

Payloads == 0..MaxPayload

\* the periods of the forecast period selector: [7, 15, 30, 60].map(...)
ForecastPeriods == {7, 15, 30, 60}

\* what a cache key holds when the screen is mounted: nothing, or the text
\* an earlier session stored
StoredStations == {Null} \cup { Stringify(StationsPayload(v)) : v \in Payloads }

\* the first render and its effects: loadStations() runs up to its fetch
PredInit ==
    /\ pStations = << >>
    /\ pSelected = Null
    /\ pForecastDays = 30
    /\ pPredictions = << >>
    /\ pLoading = TRUE
    /\ pStorage \in StoredStations
    /\ pLoadPc = "fetch"
    /\ pRead = Null
    /\ pRequests = << >>
    /\ DataIdle
    /\ NavIdle
    /\ DashIdle
    /\ MapIdle

\* loadStations after await fetch(...): response.ok leads to response.json(),
\* a response that is not OK and a rejected fetch to AsyncStorage.getItem
PredStationsFetched ==
    /\ pLoadPc = "fetch"
    /\ \E outcome \in {"ok", "not_ok", "throw"} :
          IF outcome = "ok"
          THEN pLoadPc' = "json" /\ pRead' = pRead
          ELSE pLoadPc' = "get" /\ pRead' = pStorage
    /\ UNCHANGED <<pStations, pSelected, pForecastDays, pPredictions, pLoading, pStorage,
                   pRequests, datavars, navvars, dashvars, mapvars>>

\* loadStations after await response.json(): the state is set, the effect of
\* the next render requests the first station's predictions, and
\* AsyncStorage.setItem is called; a body that does not parse goes to catch
PredStationsParsed ==
    /\ pLoadPc = "json"
    /\ \/ \E v \in Payloads :
             LET data == StationsPayload(v)
                 selected == SelectedAfterLoad(data, pSelected)
             IN  /\ pStations' = data
                 /\ pSelected' = selected
                 /\ pRequests' = AfterEffect(pRequests, selected # pSelected, selected,
                                             pForecastDays)
                 /\ pLoading' = (pLoading \/ (selected # pSelected /\ selected # Null))
                 /\ pStorage' = Stringify(data)
                 /\ pLoadPc' = "set"
                 /\ pRead' = pRead
       \/ /\ pLoadPc' = "get"
          /\ pRead' = pStorage
          /\ UNCHANGED <<pStations, pSelected, pRequests, pLoading, pStorage>>
    /\ UNCHANGED <<pForecastDays, pPredictions, datavars, navvars, dashvars, mapvars>>

\* loadStations after await AsyncStorage.setItem(...): finally setLoading(false)
PredStationsStored ==
    /\ pLoadPc = "set"
    /\ pLoading' = FALSE
    /\ pLoadPc' = "done"
    /\ UNCHANGED <<pStations, pSelected, pForecastDays, pPredictions, pStorage, pRead,
                   pRequests, datavars, navvars, dashvars, mapvars>>

\* loadStations after await AsyncStorage.getItem(...): if (cached) the cached
\* list is shown and its first station selected; finally setLoading(false).
\* The effect's loadPredictions sets loading again after the finally.
PredStationsCached ==
    /\ pLoadPc = "get"
    /\ LET data == IF pRead # Null THEN Parse(pRead) ELSE pStations
           selected == SelectedAfterLoad(data, pSelected)
       IN  /\ pStations' = data
           /\ pSelected' = selected
           /\ pRequests' = AfterEffect(pRequests, selected # pSelected, selected, pForecastDays)
           /\ pLoading' = (selected # pSelected /\ selected # Null)
    /\ pLoadPc' = "done"
    /\ pRead' = Null
    /\ UNCHANGED <<pForecastDays, pPredictions, pStorage, datavars, navvars, dashvars, mapvars>>

\* onPress={() => setSelectedStation(station)} of a station button, shown
\* unless (loading && !selectedStation); the effect follows the render
PredSelectStation ==
    /\ ~(pLoading /\ pSelected = Null)
    /\ Len(pRequests) < MaxInFlight
    /\ \E k \in 1..Len(pStations) :
          /\ pSelected' = pStations[k]
          /\ pRequests' = AfterEffect(pRequests, pStations[k] # pSelected, pStations[k],
                                      pForecastDays)
          /\ pLoading' = (pLoading \/ pStations[k] # pSelected)
    /\ UNCHANGED <<pStations, pForecastDays, pPredictions, pStorage, pLoadPc, pRead,
                   datavars, navvars, dashvars, mapvars>>

\* onPress={() => setForecastDays(days)} of a period button
PredSetForecastDays ==
    /\ ~(pLoading /\ pSelected = Null)
    /\ Len(pRequests) < MaxInFlight
    /\ \E days \in ForecastPeriods :
          /\ pForecastDays' = days
          /\ pRequests' = AfterEffect(pRequests, days # pForecastDays, pSelected, days)
          /\ pLoading' = (pLoading \/ (days # pForecastDays /\ pSelected # Null))
    /\ UNCHANGED <<pStations, pSelected, pPredictions, pStorage, pLoadPc, pRead,
                   datavars, navvars, dashvars, mapvars>>

\* loadPredictions after await fetch(...) and response.json(), for any of the
\* calls waiting: the responses arrive in any order
PredPredictionsResponse ==
    /\ \E k \in 1..Len(pRequests) :
          \E outcome \in {"ok", "ok_without_predictions", "not_ok", "throw"} :
              /\ pPredictions' = PredictionsAfter(pPredictions, pRequests[k], outcome)
              /\ pRequests' = SubSeq(pRequests, 1, k - 1)
                                  \o SubSeq(pRequests, k + 1, Len(pRequests))
    /\ pLoading' = FALSE
    /\ UNCHANGED <<pStations, pSelected, pForecastDays, pStorage, pLoadPc, pRead,
                   datavars, navvars, dashvars, mapvars>>

PredNext ==
    \/ PredStationsFetched
    \/ PredStationsParsed
    \/ PredStationsStored
    \/ PredStationsCached
    \/ PredSelectStation
    \/ PredSetForecastDays
    \/ PredPredictionsResponse

PredSpec == PredInit /\ [][PredNext]_vars

----------------------------------------------------------------------------
(* The dashboard as a state machine: one step per handler call, per         *)
(* resumption after an await, and per interval tick                         *)

\* loadData calls (loadStations calls on the map) that can run at once, and
\* interval ticks followed
MaxLoads == 2
MaxTicks == 2

Loads == 1..MaxLoads

\* what the dashboard's cache keys hold at mount: nothing, or the texts an
\* earlier session stored
StoredDashboard ==
    { [stations_data |-> Null, analytics_data |-> Null] }
        \cup { [stations_data |-> Stringify(StationsPayload(v)),
                analytics_data |-> Stringify(AnalyticsPayload(v))] : v \in Payloads }

\* the first render and its effect: initializeApp() runs up to its fetch and
\* the interval is set
DashInit ==
    /\ dStations = << >>
    /\ dAnalytics = Null
    /\ dLoading = TRUE
    /\ dRefreshing = FALSE
    /\ dError = Null
    /\ dStorage \in StoredDashboard
    /\ dInitPc = "post"
    /\ dLoads = [c \in Loads |-> IdleLoad]
    /\ dTicks = 0
    /\ dSimRequests = << >>
    /\ DataIdle
    /\ NavIdle
    /\ PredIdle
    /\ MapIdle

\* initializeApp after await fetch(.../api/stations/initialize): an OK
\* response calls loadData, which runs up to its Promise.all; a response
\* that is not OK and a rejected fetch go to catch and finally
InitializeResponded ==
    /\ dInitPc = "post"
    /\ \E outcome \in {"ok", "not_ok", "throw"} :
          IF outcome = "ok"
          THEN /\ dInitPc' = "load"
               /\ dLoads' = [dLoads EXCEPT ![1] = [IdleLoad EXCEPT !.pc = "fetch", !.by = "init"]]
               /\ UNCHANGED <<dError, dLoading>>
          ELSE /\ dInitPc' = "done"
               /\ dError' = "Failed to initialize app. Please check your connection."
               /\ dLoading' = FALSE
               /\ dLoads' = dLoads
    /\ UNCHANGED <<dStations, dAnalytics, dRefreshing, dStorage, dTicks, dSimRequests,
                   datavars, navvars, predvars, mapvars>>

\* onRefresh, from the refresh button or the pull gesture, both shown once
\* loading is false: setRefreshing(true) and loadData up to its Promise.all
OnRefresh ==
    /\ ~dLoading
    /\ \E c \in DOMAIN dLoads :
          /\ dLoads[c].pc = "idle"
          /\ dLoads' = [dLoads EXCEPT ![c] = [IdleLoad EXCEPT !.pc = "fetch", !.by = "refresh"]]
    /\ dRefreshing' = TRUE
    /\ UNCHANGED <<dStations, dAnalytics, dLoading, dError, dStorage, dInitPc, dTicks,
                   dSimRequests, datavars, navvars, predvars, mapvars>>

\* loadData after await Promise.all([...]): both responses OK leads to
\* stationsResponse.json(); otherwise (a response not OK, a rejected fetch)
\* catch calls loadCachedData, which runs up to its first getItem
LoadDataFetched(c) ==
    /\ dLoads[c].pc = "fetch"
    /\ \E outcome \in {"ok", "not_ok", "throw"} :
          dLoads' = IF outcome = "ok"
                    THEN [dLoads EXCEPT ![c].pc = "json_st"]
                    ELSE [dLoads EXCEPT ![c].pc = "get_st", ![c].cst = dStorage.stations_data]
    /\ UNCHANGED <<dStations, dAnalytics, dLoading, dRefreshing, dError, dStorage, dInitPc,
                   dTicks, dSimRequests, datavars, navvars, predvars, mapvars>>

\* loadData after await stationsResponse.json(); a body that does not parse
\* goes to catch
LoadDataStationsParsed(c) ==
    /\ dLoads[c].pc = "json_st"
    /\ \/ \E v \in Payloads :
             dLoads' = [dLoads EXCEPT ![c].pc = "json_an", ![c].st = StationsPayload(v)]
       \/ dLoads' = [dLoads EXCEPT ![c].pc = "get_st", ![c].cst = dStorage.stations_data]
    /\ UNCHANGED <<dStations, dAnalytics, dLoading, dRefreshing, dError, dStorage, dInitPc,
                   dTicks, dSimRequests, datavars, navvars, predvars, mapvars>>

\* loadData after await analyticsResponse.json(): setStations, setAnalytics
\* and AsyncStorage.setItem('stations_data', ...)
LoadDataAnalyticsParsed(c) ==
    /\ dLoads[c].pc = "json_an"
    /\ \/ \E v \in Payloads :
             /\ dStations' = dLoads[c].st
             /\ dAnalytics' = AnalyticsPayload(v)
             /\ dStorage' = [dStorage EXCEPT !.stations_data = Stringify(dLoads[c].st)]
             /\ dLoads' = [dLoads EXCEPT ![c].pc = "set_st", ![c].an = AnalyticsPayload(v)]
       \/ /\ dLoads' = [dLoads EXCEPT ![c].pc = "get_st", ![c].st = << >>,
                                       ![c].cst = dStorage.stations_data]
          /\ UNCHANGED <<dStations, dAnalytics, dStorage>>
    /\ UNCHANGED <<dLoading, dRefreshing, dError, dInitPc, dTicks, dSimRequests,
                   datavars, navvars, predvars, mapvars>>

\* loadData after the first setItem: AsyncStorage.setItem('analytics_data', ...)
LoadDataStationsStored(c) ==
    /\ dLoads[c].pc = "set_st"
    /\ dStorage' = [dStorage EXCEPT !.analytics_data = Stringify(dLoads[c].an)]
    /\ dLoads' = [dLoads EXCEPT ![c].pc = "set_an"]
    /\ UNCHANGED <<dStations, dAnalytics, dLoading, dRefreshing, dError, dInitPc, dTicks,
                   dSimRequests, datavars, navvars, predvars, mapvars>>

\* loadData returns after the second setItem, and its caller resumes:
\* initializeApp's finally setLoading(false), onRefresh's setRefreshing(false)
LoadDataStored(c) ==
    /\ dLoads[c].pc = "set_an"
    /\ dLoads' = [dLoads EXCEPT ![c] = IdleLoad]
    /\ dLoading' = IF dLoads[c].by = "init" THEN FALSE ELSE dLoading
    /\ dInitPc' = IF dLoads[c].by = "init" THEN "done" ELSE dInitPc
    /\ dRefreshing' = IF dLoads[c].by = "refresh" THEN FALSE ELSE dRefreshing
    /\ UNCHANGED <<dStations, dAnalytics, dError, dStorage, dTicks, dSimRequests,
                   datavars, navvars, predvars, mapvars>>

\* loadCachedData after await AsyncStorage.getItem('stations_data'): the
\* second getItem
LoadCachedStationsRead(c) ==
    /\ dLoads[c].pc = "get_st"
    /\ dLoads' = [dLoads EXCEPT ![c].pc = "get_an", ![c].can = dStorage.analytics_data]
    /\ UNCHANGED <<dStations, dAnalytics, dLoading, dRefreshing, dError, dStorage, dInitPc,
                   dTicks, dSimRequests, datavars, navvars, predvars, mapvars>>

\* loadCachedData after the second getItem: what was cached is shown;
\* loadData sets the error and returns, and its caller resumes
LoadCachedRead(c) ==
    /\ dLoads[c].pc = "get_an"
    /\ dStations' = ShownFromCache(dLoads[c].cst, dStations)
    /\ dAnalytics' = ShownFromCache(dLoads[c].can, dAnalytics)
    /\ dError' = "Using cached data. Check connection for latest updates."
    /\ dLoads' = [dLoads EXCEPT ![c] = IdleLoad]
    /\ dLoading' = IF dLoads[c].by = "init" THEN FALSE ELSE dLoading
    /\ dInitPc' = IF dLoads[c].by = "init" THEN "done" ELSE dInitPc
    /\ dRefreshing' = IF dLoads[c].by = "refresh" THEN FALSE ELSE dRefreshing
    /\ UNCHANGED <<dStorage, dTicks, dSimRequests, datavars, navvars, predvars, mapvars>>

\* the interval callback: if (!loading) simulateRealTimeUpdate(), which
\* returns at once for an empty list and else posts a simulate-update for
\* one of its stations
IntervalTick ==
    /\ dInitPc # "idle"
    /\ dTicks < MaxTicks
    /\ dTicks' = dTicks + 1
    /\ IF ~EffectLoading /\ Len(EffectStations) # 0
       THEN \E k \in 1..Len(EffectStations) :
                dSimRequests' = Append(dSimRequests, EffectStations[k].station_id)
       ELSE dSimRequests' = dSimRequests
    /\ UNCHANGED <<dStations, dAnalytics, dLoading, dRefreshing, dError, dStorage, dInitPc,
                   dLoads, datavars, navvars, predvars, mapvars>>

DashNext ==
    \/ InitializeResponded
    \/ OnRefresh
    \/ \E c \in DOMAIN dLoads : LoadDataFetched(c)
    \/ \E c \in DOMAIN dLoads : LoadDataStationsParsed(c)
    \/ \E c \in DOMAIN dLoads : LoadDataAnalyticsParsed(c)
    \/ \E c \in DOMAIN dLoads : LoadDataStationsStored(c)
    \/ \E c \in DOMAIN dLoads : LoadDataStored(c)
    \/ \E c \in DOMAIN dLoads : LoadCachedStationsRead(c)
    \/ \E c \in DOMAIN dLoads : LoadCachedRead(c)
    \/ IntervalTick

DashSpec == DashInit /\ [][DashNext]_vars

----------------------------------------------------------------------------
(* The map screen as a state machine *)

\* the first render and its effect: loadStations() runs up to its fetch
MapInit ==
    /\ mStations = << >>
    /\ mLoading = TRUE
    /\ mStorage \in StoredStations
    /\ mLoads = [c \in Loads |-> IF c = 1 THEN [IdleLoad EXCEPT !.pc = "fetch"] ELSE IdleLoad]
    /\ DataIdle
    /\ NavIdle
    /\ PredIdle
    /\ DashIdle

\* onPress={loadStations} of the refresh button: up to the fetch
MapRefresh ==
    /\ \E c \in DOMAIN mLoads :
          /\ mLoads[c].pc = "idle"
          /\ mLoads' = [mLoads EXCEPT ![c].pc = "fetch"]
    /\ UNCHANGED <<mStations, mLoading, mStorage, datavars, navvars, predvars, dashvars>>

\* loadStations after await fetch(...): response.ok leads to
\* response.json(), a response that is not OK and a rejected fetch to getItem
MapFetched(c) ==
    /\ mLoads[c].pc = "fetch"
    /\ \E outcome \in {"ok", "not_ok", "throw"} :
          mLoads' = IF outcome = "ok"
                    THEN [mLoads EXCEPT ![c].pc = "json_st"]
                    ELSE [mLoads EXCEPT ![c].pc = "get_st", ![c].cst = mStorage]
    /\ UNCHANGED <<mStations, mLoading, mStorage, datavars, navvars, predvars, dashvars>>

\* loadStations after await response.json(): setStations(data) and
\* AsyncStorage.setItem('map_stations', ...); a body that does not parse
\* goes to catch
MapParsed(c) ==
    /\ mLoads[c].pc = "json_st"
    /\ \/ \E v \in Payloads :
             /\ mStations' = StationsPayload(v)
             /\ mStorage' = Stringify(StationsPayload(v))
             /\ mLoads' = [mLoads EXCEPT ![c].pc = "set_st", ![c].st = StationsPayload(v)]
       \/ /\ mLoads' = [mLoads EXCEPT ![c].pc = "get_st", ![c].cst = mStorage]
          /\ UNCHANGED <<mStations, mStorage>>
    /\ UNCHANGED <<mLoading, datavars, navvars, predvars, dashvars>>

\* loadStations after await AsyncStorage.setItem(...): finally setLoading(false)
MapStored(c) ==
    /\ mLoads[c].pc = "set_st"
    /\ mLoads' = [mLoads EXCEPT ![c] = IdleLoad]
    /\ mLoading' = FALSE
    /\ UNCHANGED <<mStations, mStorage, datavars, navvars, predvars, dashvars>>

\* loadStations after await AsyncStorage.getItem(...): if (cached)
\* setStations(JSON.parse(cached)); finally setLoading(false)
MapCachedRead(c) ==
    /\ mLoads[c].pc = "get_st"
    /\ mStations' = ShownFromCache(mLoads[c].cst, mStations)
    /\ mLoads' = [mLoads EXCEPT ![c] = IdleLoad]
    /\ mLoading' = FALSE
    /\ UNCHANGED <<mStorage, datavars, navvars, predvars, dashvars>>

MapNext ==
    \/ MapRefresh
    \/ \E c \in DOMAIN mLoads : MapFetched(c)
    \/ \E c \in DOMAIN mLoads : MapParsed(c)
    \/ \E c \in DOMAIN mLoads : MapStored(c)
    \/ \E c \in DOMAIN mLoads : MapCachedRead(c)

MapSpec == MapInit /\ [][MapNext]_vars

----------------------------------------------------------------------------
(* The two screens that cache what they fetch: the dashboard or the map *)

CacheInit == DashInit \/ MapInit

CacheNext == DashNext \/ MapNext

CacheSpec == CacheInit /\ [][CacheNext]_vars

----------------------------------------------------------------------------
(* Either pipeline that builds stations: the synthesizer or the CSV aggregation *)

PipelineInit == SInit \/ CInit

PipelineNext == SNext \/ CNext

PipelineSpec == PipelineInit /\ [][PipelineNext]_vars

----------------------------------------------------------------------------
(* Properties of the water-quality scorer *)

\* inputs a sensor can report: pH within 0..14, dissolved oxygen not negative
InPhysicalDomain == qPH \in 0..1400 /\ qDO >= 0

\* the status the specification assigns to a stored index
ClaimedStatus(index) ==
    IF index >= 8000 THEN "excellent"
    ELSE IF index >= 6000 THEN "good"
    ELSE IF index >= 4000 THEN "fair"
    ELSE "poor"

\* C1: in every water_quality record produced, by either variant, the status
\* is the one the thresholds 80 / 60 / 40 give for the stored quality_index.
C1_StatusAgreesWithStoredIndex ==
    (qPath # None /\ InPhysicalDomain) => qOut.status = ClaimedStatus(qOut.quality_index)

\* C2: the stored quality_index is the integer round((pH_factor + do_factor) / 2)
\* with do_factor = min(100, do * 10), in both variants; (7.0, 10.0) gives
\* 100 / excellent and (7.0, 0) gives 50 / fair.
C2_StoredIndexIsRoundedMean ==
    (qPath # None /\ InPhysicalDomain) =>
        /\ qOut.quality_index =
               MathRound((Max(0, 10000 - Abs(qPH - 700) * 20) + Min(10000, qDO * 10)) \div 2)
        /\ (qPH = 700 /\ qDO = 1000) =>
               (qOut.quality_index = 10000 /\ qOut.status = "excellent")
        /\ (qPH = 700 /\ qDO = 0) =>
               (qOut.quality_index = 5000 /\ qOut.status = "fair")

\* C3: for every input, out-of-domain ones included, the quality_index
\* returned lies in 0..100.
C3_IndexWithinZeroToHundred ==
    qPath # None => (0 <= qOut.quality_index /\ qOut.quality_index <= 10000)

StatusRank(status) ==
    CASE status = "poor" -> 0
      [] status = "fair" -> 1
      [] status = "good" -> 2
      [] status = "excellent" -> 3
      [] OTHER -> 0 - 1

\* the indices 0, 0.5, 1, ..., 100
IndexGrid == { 50 * k : k \in 0..200 }

\* C5: on an index in [0, 100] the status mapping returns one of the four
\* categories, and a higher index never gets a worse category than a lower
\* one (poor < fair < good < excellent).  Every index of the grid is the
\* index of some reachable record, so comparing each record with the indices
\* above it compares every pair.
C5_StatusMonotone ==
    /\ (qPath = "csv" /\ qOut.quality_index \in IndexGrid) =>
          /\ qOut.status \in {"excellent", "good", "fair", "poor"}
          /\ \A b \in IndexGrid :
                b >= qOut.quality_index =>
                    StatusRank(getQualityStatus(b)) >= StatusRank(qOut.status)
    /\ (qPath = "synth" /\ SynthRawIndex(qPH, qDO) \in IndexGrid) =>
          /\ qOut.status \in {"excellent", "good", "fair", "poor"}
          /\ \A b \in IndexGrid :
                b >= SynthRawIndex(qPH, qDO) =>
                    StatusRank(SynthStatus(b)) >= StatusRank(qOut.status)

\* an index exactly on a threshold, between a lower and a higher category
C5_Witness ==
    /\ qPath = "csv"
    /\ qOut.quality_index = 6000
    /\ qOut.status = "good"

\* C20: the two quality-scorer variants (do_factor = min(100, do*10) in the
\* CSV path, min(100, (do/10)*100) in the synthesizer) are equivalent: for
\* every identical (pH, dissolved_oxygen) input both produce the same
\* quality_index and the same status.
C20_VariantsEquivalent ==
    /\ (qPath = "synth" /\ InPhysicalDomain) =>
          /\ qOut.quality_index = CsvWaterQuality(qPH, qDO).quality_index
          /\ qOut.status = CsvWaterQuality(qPH, qDO).status
    /\ (qPath = "csv" /\ InPhysicalDomain) =>
          /\ qOut.quality_index = calculateWaterQuality(qPH, qDO).quality_index
          /\ qOut.status = calculateWaterQuality(qPH, qDO).status

----------------------------------------------------------------------------
(* Properties of the historical series *)

\* C7: a generated series has exactly 90 points, and each point's date is
\* exactly one calendar day after the date of the point before it (so the
\* dates are unique and strictly increasing).
C7_NinetyConsecutiveDates ==
    hPc = "done" =>
        /\ Len(hData) = 90
        /\ \A k \in 1..(Len(hData) - 1) : hData[k + 1].date = hData[k].date + 1

\* C9: every historical point has level >= 0.5, for every trend, day offset,
\* noise outcome and current level: the points pushed so far, and the point
\* the next iteration would push under each noise outcome sampled.
C9_LevelAtLeastFloor ==
    /\ \A k \in 1..Len(hData) : hData[k].level >= 50
    /\ (hPc = "loop" /\ hI < HistoryDays) =>
          \A r \in Seeds : HistLevel(hCurrentLevel, hTrend, hI, r) >= 50

\* a finished series whose trended level was below the floor all along: the
\* first point sits on the floor, the last one floor plus seasonal term
C9_Witness ==
    /\ hPc = "done"
    /\ hCurrentLevel < 0
    /\ hData[1].level = 50
    /\ hData[HistoryDays].level = 100

\* C19: for a station synthesized with trend falling (current level within
\* [5, 50]), the level of the first historical point (day 0) is greater than
\* the level of the last one (day 89) when the noise terms take their mean
\* value (zero); symmetrically, for trend rising the last level is greater
\* than the first; the least-squares slope of the series has the sign of the
\* drift.
C19_DriftDirectionAtMeanNoise ==
    ( /\ hPc = "done"
      /\ rngInc = 0
      /\ rng = RandMod \div 2
      /\ hCurrentLevel >= 500
      /\ hCurrentLevel <= 5000 ) =>
        LET fit == calculateTrendFromData(
                       [k \in 1..Len(hData) |-> hData[k].level - hCurrentLevel])
        IN  /\ hTrend = "falling" =>
                  /\ hData[1].level > hData[HistoryDays].level
                  /\ fit.num < 0
                  /\ fit.den > 0
            /\ hTrend = "rising" =>
                  /\ hData[HistoryDays].level > hData[1].level
                  /\ fit.num > 0
                  /\ fit.den > 0

\* a finished falling series at mean noise from current level 5.00: day 0 at
\* 5.00 + 1.80, day 89 at 5.00 + 0.02 plus the seasonal 0.50
C19_Witness ==
    /\ hPc = "done"
    /\ rngInc = 0
    /\ rng = RandMod \div 2
    /\ hTrend = "falling"
    /\ hCurrentLevel = 500
    /\ hData[1].level = 680
    /\ hData[HistoryDays].level = 552

\* C23: the 90-point series covers day offsets 0..89 where day 0 is dated 90
\* days before the synthesis date and day 89 is dated the synthesis date
\* itself: the last historical point carries today's date.
C23_LastPointDatedToday ==
    hPc = "done" =>
        /\ Len(hData) = HistoryDays
        /\ hData[1].date = ToISODate(now) - 90
        /\ hData[HistoryDays].date = ToISODate(now)

\* C24: the generator fails fast (raises an error and returns no series) when
\* current_level is not a finite non-negative number; for every finite
\* non-negative current_level it returns a 90-point series.
C24_FailsFastOnBadLevel ==
    /\ hCurrentLevel < 0 => (hPc # "done" /\ hData = << >>)
    /\ (hCurrentLevel >= 0 /\ hPc = "done") => Len(hData) = HistoryDays

\* noise draws tried against each other: the seeds and eight evenly spaced ones
NoiseDraws == Seeds \cup { k * (RandMod \div 8) : k \in 0..7 }

\* C27: with current_level in [5, 50], for every outcome of the per-point
\* noise a falling station's first historical level is strictly greater than
\* its last and a rising station's last is strictly greater than its first,
\* and the 0.5 clamp is never active: in the series returned, and for every
\* pair of noise draws tried for day 0 and day 89.
C27_DriftDirectionEveryRun ==
    (hCurrentLevel >= 500 /\ hCurrentLevel <= 5000) =>
        /\ hPc = "done" =>
              /\ hTrend = "falling" => hData[1].level > hData[HistoryDays].level
              /\ hTrend = "rising" => hData[HistoryDays].level > hData[1].level
        /\ hPc = "start" =>
              \A r0 \in NoiseDraws : \A r89 \in NoiseDraws :
                  /\ hTrend = "falling" =>
                        HistLevel(hCurrentLevel, hTrend, 0, r0)
                            > HistLevel(hCurrentLevel, hTrend, HistoryDays - 1, r89)
                  /\ hTrend = "rising" =>
                        HistLevel(hCurrentLevel, hTrend, HistoryDays - 1, r89)
                            > HistLevel(hCurrentLevel, hTrend, 0, r0)
        /\ (hPc = "loop" /\ hI < HistoryDays) =>
              \A r \in NoiseDraws :
                  ClampLevel(TrendedLevel(hCurrentLevel, hTrend, hI, r))
                      = TrendedLevel(hCurrentLevel, hTrend, hI, r)

\* a finished falling series from current level 5.00 under a varying noise
\* stream, the first level above the last
C27_Witness ==
    /\ hPc = "done"
    /\ rngInc # 0
    /\ hTrend = "falling"
    /\ hCurrentLevel = 500
    /\ hData[1].level > hData[HistoryDays].level

----------------------------------------------------------------------------
(* Properties of the station population *)

\* outcomes of the suffix draw to try against a station id: each seed, and
\* each seed with its base-36 digits moved one place (a leading "0" added,
\* the leading digit dropped), so that suffixes starting with a digit meet
\* sequence numbers of another width
IdDraws ==
    Seeds \cup { r \div 36 : r \in Seeds } \cup { (r * 36) % RandMod : r \in Seeds }

\* the ids sequence number j can get under the suffix outcomes tried
PossibleIds == [ j \in 1..StationCount |-> { generateStationId(j, r) : r \in IdDraws } ]

\* C6: generateMockStations returns exactly 100 stations with pairwise
\* distinct station_id values, whatever the suffix draws (short and empty
\* suffixes included): the ids returned differ, and the id of the station
\* just pushed is not the id of any other sequence number under any of the
\* suffix outcomes tried.
C6_HundredDistinctIds ==
    /\ sPc = "done" =>
          /\ Len(stations) = 100
          /\ \A j \in 1..Len(stations) : \A k \in 1..Len(stations) :
                j # k => stations[j].station_id # stations[k].station_id
    /\ Len(stations) >= 1 =>
          \A j \in 1..StationCount :
              j # Len(stations) =>
                  stations[Len(stations)].station_id \notin PossibleIds[j]

\* a finished run in which every suffix draw gave the empty suffix
C6_Witness ==
    /\ sPc = "done"
    /\ Len(stations) = StationCount
    /\ Len(stations[1].station_id) = 7
    /\ Len(stations[StationCount].station_id) = 7

\* C8: every synthesized station's current_level lies in [5, 50], for every
\* value of the uniform draw: the stations pushed, and every outcome
\* r / RandMod of the draw.
C8_CurrentLevelInRange ==
    /\ \A k \in 1..Len(stations) :
          stations[k].current_level >= 500 /\ stations[k].current_level <= 5000
    /\ sI = 0 =>
          \A r \in 0..(RandMod - 1) :
              SynthCurrentLevel(r) >= 500 /\ SynthCurrentLevel(r) <= 5000

\* a station whose draw was the largest one: it rounds up to exactly 50.00
C8_Witness ==
    /\ Len(stations) >= 1
    /\ rng = RandMod - 1
    /\ stations[1].current_level = 5000

\* C22: at synthesis time the level of a station's last historical point (day
\* 89) differs from its current_level by at most 1.51 m for every trend and
\* every noise outcome, and for falling and rising trends by at most 1.03 m:
\* in the stations pushed, and for every outcome r / RandMod of the noise
\* draw at both ends of the current-level range.
C22_LastPointNearCurrentLevel ==
    /\ \A k \in 1..Len(stations) :
          LET gap == Abs(stations[k].historical_data[HistoryDays].level
                             - stations[k].current_level)
          IN  /\ gap <= 151
              /\ stations[k].trend \in {"falling", "rising"} => gap <= 103
    /\ (sI = 0 /\ rng = 0 /\ rngInc = 0) =>
          \A c \in {500, 5000} : \A r \in 0..(RandMod - 1) :
              /\ Abs(HistLevel(c, "stable", HistoryDays - 1, r) - c) <= 151
              /\ Abs(HistLevel(c, "falling", HistoryDays - 1, r) - c) <= 103
              /\ Abs(HistLevel(c, "rising", HistoryDays - 1, r) - c) <= 103

\* a stable station whose last noise draw was the largest one: the last
\* point is 1.50 m above the current level
C22_Witness ==
    /\ Len(stations) >= 1
    /\ stations[1].trend = "stable"
    /\ stations[1].historical_data[HistoryDays].level - stations[1].current_level = 150

----------------------------------------------------------------------------
(* Properties of the forecast *)

\* C10: for a non-empty series and days >= 1, generatePredictions returns
\* exactly `days` points, and point d carries the date of the last row plus
\* d days (consecutive calendar days from the day after the last row).
C10_ConsecutiveForecastDates ==
    (fPc = "done" /\ fDays >= 1) =>
        /\ Len(predictions) = fDays
        /\ \A d \in 1..Len(predictions) :
              predictions[d].date = fHistorical[Len(fHistorical)].Date + d

\* the levels of the rows of the series being forecast
FLevels == [k \in 1..Len(fHistorical) |-> fHistorical[k].Water_Level_m]

\* C11: in every forecast the confidence of day d equals max(0.5, 1 - 0.01*d):
\* it is 0.99 at day 1, non-increasing along the sequence, never below 0.5
\* nor above 1, and exactly 0.5 for every day d >= 50.
C11_ConfidenceDecay ==
    \A d \in 1..Len(predictions) :
        /\ predictions[d].confidence = (IF 100 - d >= 50 THEN 100 - d ELSE 50)
        /\ d = 1 => predictions[d].confidence = 99
        /\ d > 1 => predictions[d].confidence <= predictions[d - 1].confidence
        /\ predictions[d].confidence >= 50
        /\ predictions[d].confidence <= 100
        /\ d >= 50 => predictions[d].confidence = 50

\* a finished forecast that runs past day 50: still decaying at day 49, on
\* the floor at day 50 and after it
C11_Witness ==
    /\ fPc = "done"
    /\ Len(predictions) >= 51
    /\ predictions[49].confidence = 51
    /\ predictions[50].confidence = 50
    /\ predictions[51].confidence = 50

\* last_level + slope*d*0.01 + 0.1*sin(2*pi*d/365) in ten-thousandths, for the
\* slope num / den in hundredths a row
ClaimedBase(lastLevel, num, den, d) ==
    lastLevel * 100 + ((num \div den) * d + ((num % den) * d) \div den) + Sin365(d) \div 10

\* the series is an exact arithmetic progression of at least two rows
IsArithmetic(levels) ==
    /\ Len(levels) >= 2
    /\ \A k \in 2..Len(levels) : levels[k] - levels[k - 1] = levels[2] - levels[1]

\* C12: for every forecast day d, predicted_level equals
\* max(0, last_level + slope*d*0.01 + 0.1*sin(2*pi*d/365) + r) with
\* |r| <= 0.025, rounded to 3 decimals, where slope is the least-squares slope
\* of the series (for an arithmetic progression, its common difference);
\* a flat series of five 10.0 values with days = 30 yields every
\* predicted_level within 10.0 +/- 0.2, and a 90-point series falling
\* linearly from 20.0 to 10.0 a day-30 predicted_level within 0.15 of 9.97.
\* Each point is examined in the state its push leads to.
C12_PredictedLevelFormula ==
    LET levels == FLevels
        trend == calculateTrendFromData(levels)
    IN  /\ (fPc = "loop" /\ IsArithmetic(levels)) =>
              trend.num = (levels[2] - levels[1]) * trend.den
        /\ \A d \in {Len(predictions)} \ {0} :
              LET base == ClaimedBase(levels[Len(levels)], trend.num, trend.den, d)
                  low == IF base - 250 > 0 THEN base - 250 ELSE 0
                  high == IF base + 250 > 0 THEN base + 250 ELSE 0
              IN  /\ predictions[d].predicted_level >= RoundDiv(low, 10)
                  /\ predictions[d].predicted_level <= RoundDiv(high, 10)
        /\ (fDays = 30 /\ levels = << 1000, 1000, 1000, 1000, 1000 >>) =>
              \A d \in {Len(predictions)} \ {0} :
                  /\ predictions[d].predicted_level >= 10000 - 200
                  /\ predictions[d].predicted_level <= 10000 + 200
        /\ ( /\ Len(levels) = 90
             /\ levels[1] = 2000
             /\ levels[90] = 1000
             /\ Len(predictions) = 30 ) =>
              /\ predictions[30].predicted_level >= 9970 - 150
              /\ predictions[30].predicted_level <= 9970 + 150

\* the 90-point linear fall forecast over 30 days: the slope is negative and
\* day 30 lies above the last level, the seasonal term outweighing the trend
C12_Witness ==
    /\ fPc = "done"
    /\ fDays = 30
    /\ Len(fHistorical) = 90
    /\ fHistorical[1].Water_Level_m = 2000
    /\ fHistorical[90].Water_Level_m = 1000
    /\ calculateTrendFromData(FLevels).num < 0
    /\ predictions[30].predicted_level > 10000

\* C13: every predicted_level in every forecast is >= 0, for every
\* historical series (steep negative slope, last level near zero), every
\* horizon and every noise outcome: the points pushed, and the point the next
\* iteration would push under the lowest and the highest noise outcome.
C13_PredictedLevelNonNegative ==
    /\ \A d \in 1..Len(predictions) : predictions[d].predicted_level >= 0
    /\ (fPc = "loop" /\ fI <= fDays) =>
          \A r \in {0, RandMod - 1} :
              PredictionPoint(fHistorical, tz, fI, r).predicted_level >= 0

\* a finished forecast of a steeply falling series that ends at 0.02: the
\* unclamped level is negative from day 1 on and every point is clamped to 0
C13_Witness ==
    /\ fPc = "done"
    /\ Len(fHistorical) >= 2
    /\ fHistorical[Len(fHistorical)].Water_Level_m = 2
    /\ calculateTrendFromData(FLevels).num < 0
    /\ Len(predictions) >= 7
    /\ predictions[1].predicted_level = 0
    /\ predictions[7].predicted_level = 0

\* C14: the trend estimate never divides by zero: for a series of fewer than
\* 2 points the slope is 0, and for every series length n >= 2 the
\* denominator n*sum(x^2) - (sum x)^2 is strictly positive (it is
\* n^2 * (n^2 - 1) / 12), so a finite slope is always returned; checked
\* where the slope is computed (before the loop and on entering it), for the
\* series being forecast and, once for each series, for every prefix of it.
C14_SlopeNeverDividesByZero ==
    LET levels == FLevels
        trend == calculateTrendFromData(levels)
    IN  /\ fI <= 1 =>
              /\ trend.den > 0
              /\ Len(levels) < 2 => trend.num = 0
        /\ (fPc = "start" /\ fDays = 0 /\ rng = 0 /\ rngInc = 0) =>
              \A n \in 0..Len(levels) :
                  LET t == calculateTrendFromData(SubSeq(levels, 1, n))
                  IN  /\ t.den > 0
                      /\ n < 2 => t.num = 0
                      /\ n >= 2 => 12 * t.den = n * n * (n * n - 1)

\* a finished forecast of a single-row series: the slope is 0 and every
\* point stays within seasonal term and noise of the only level
C14_Witness ==
    /\ fPc = "done"
    /\ Len(fHistorical) = 1
    /\ Len(predictions) >= 7
    /\ \A d \in 1..Len(predictions) :
          /\ predictions[d].predicted_level * 10 >= fHistorical[1].Water_Level_m * 100 - 250
          /\ predictions[d].predicted_level * 10
                 <= fHistorical[1].Water_Level_m * 100 + Sin365(d) \div 10 + 250

\* C15: generatePredictions with an empty historical series surfaces an
\* error to the caller; it never returns a forecast list (empty or otherwise)
\* for an empty series, for any value of days.
C15_EmptySeriesThrows ==
    Len(fHistorical) = 0 =>
        /\ fPc \in {"start", "threw"}
        /\ predictions = << >>

\* the call with an empty series and days = 0 has thrown, although its loop
\* would not have run
C15_Witness ==
    /\ fPc = "threw"
    /\ Len(fHistorical) = 0
    /\ fDays = 0

----------------------------------------------------------------------------
(* Properties of the CSV aggregation *)

\* C16: in CSV aggregation a station's trend is classified from the window
\* of the last min(5, n) rows of its slice, with f the first and l the last
\* level of the window: rising if l > f*1.05, else falling if l < f*0.95,
\* else stable; a window of a single row is always stable, and exactly one
\* of the three labels is assigned.  For f >= 0 the two conditions exclude
\* each other and each decides the label on its own.
C16_TrendFromLastFive ==
    \A j \in 1..Len(cStations) :
        LET slice == cStations[j].historical_data
            n == Len(slice)
            w == IF n < 5 THEN n ELSE 5
            f == slice[n - w + 1].Water_Level_m
            l == slice[n].Water_Level_m
            label == cStations[j].trend
        IN  /\ label \in {"rising", "falling", "stable"}
            /\ w = 1 => label = "stable"
            /\ w > 1 =>
                  /\ label = "rising" <=> l * 100 > f * 105
                  /\ label = "falling" <=> (l * 100 < f * 95 /\ ~(l * 100 > f * 105))
                  /\ f >= 0 => (label = "falling" <=> l * 100 < f * 95)

\* a finished aggregation with a slice longer than the window, in which the
\* window runs from 1.00 to 1.05 (exactly on the band: stable) while the
\* slice starts at another level
C16_Witness ==
    /\ cPc = "done"
    /\ \E j \in 1..Len(cStations) :
          LET slice == cStations[j].historical_data
          IN  /\ Len(slice) >= 6
              /\ slice[Len(slice) - 4].Water_Level_m = 100
              /\ slice[Len(slice)].Water_Level_m = 105
              /\ slice[1].Water_Level_m = 106
              /\ cStations[j].trend = "stable"

----------------------------------------------------------------------------
(* Properties of the synthesizer's categorical draws *)

\* a hundred equally likely outcomes of one uniform draw: the midpoints
\* 0.005, 0.015, ..., 0.995 of the hundredths of [0, 1)
DrawGrid == { ((2 * k + 1) * RandMod) \div 200 : k \in 0..99 }

\* the outcomes of two independent draws: each pair has probability 1 / 10000
DrawPairs == DrawGrid \X DrawGrid

\* how many of the 10000 equally likely pairs of draws give the trend `label`
\* (the second draw is used only when the first does not decide)
TrendCount(label) ==
    Cardinality({ p \in DrawPairs : SynthTrend(p[1], p[2]) = label })

\* C17: the synthesizer's trend assignment is a three-way categorical draw in
\* which, over independent uniform draws, falling has probability 0.3,
\* rising has probability 0.3 and stable the remaining 0.4.
C17_TrendSplit ==
    Len(stations) >= 1 =>
        /\ stations[Len(stations)].trend \in {"falling", "rising", "stable"}
        /\ TrendCount("falling") * 10 = 3 * Cardinality(DrawPairs)
        /\ TrendCount("rising") * 10 = 3 * Cardinality(DrawPairs)
        /\ TrendCount("stable") * 10 = 4 * Cardinality(DrawPairs)

\* how many of the 10000 equally likely pairs of draws give the operational
\* status `label`
StatusCount(label) ==
    Cardinality({ p \in DrawPairs : SynthOperationalStatus(p[1], p[2]) = label })

\* C18: the synthesizer's operational status assignment gives, over
\* independent uniform draws, active with probability 0.85, maintenance with
\* probability 0.10 and inactive with probability 0.05.
C18_StatusSplit ==
    Len(stations) >= 1 =>
        /\ stations[Len(stations)].status \in {"active", "maintenance", "inactive"}
        /\ StatusCount("active") * 100 = 85 * Cardinality(DrawPairs)
        /\ StatusCount("maintenance") * 100 = 10 * Cardinality(DrawPairs)
        /\ StatusCount("inactive") * 100 = 5 * Cardinality(DrawPairs)

----------------------------------------------------------------------------
(* Properties of the stations either pipeline builds *)

\* C21: in both pipelines a station's latest snapshot is derived from the
\* last point of its own historical_data: water_quality.pH and
\* water_quality.dissolved_oxygen equal the pH and dissolved oxygen of the
\* last historical point and quality_index / status are the scorer's output
\* for that pair; in CSV aggregation current_level and last_updated
\* additionally equal the level and date of that last row.
C21_SnapshotFromLastPoint ==
    /\ \A k \in 1..Len(stations) :
          LET series == stations[k].historical_data
              last == series[HistoryDays]
              quality == stations[k].water_quality
          IN  /\ Len(series) = HistoryDays
              /\ quality.pH = last.pH
              /\ quality.dissolved_oxygen = last.dissolved_oxygen
              /\ quality.quality_index =
                     calculateWaterQuality(last.pH, last.dissolved_oxygen).quality_index
              /\ quality.status =
                     calculateWaterQuality(last.pH, last.dissolved_oxygen).status
    /\ \A k \in 1..Len(cStations) :
          LET slice == cStations[k].historical_data
              last == slice[Len(slice)]
              quality == cStations[k].water_quality
          IN  /\ Len(slice) >= 1
              /\ quality.pH = last.pH
              /\ quality.dissolved_oxygen = last.Dissolved_Oxygen_mg_L
              /\ quality.quality_index =
                     calculateQualityIndex(last.pH, last.Dissolved_Oxygen_mg_L)
              /\ quality.status =
                     getQualityStatus(calculateQualityIndex(last.pH, last.Dissolved_Oxygen_mg_L))
              /\ cStations[k].current_level = last.Water_Level_m
              /\ cStations[k].last_updated = last.Date

\* a synthesized population whose first station's series starts and ends
\* with different pH readings, the snapshot carrying the last one
C21_Witness ==
    /\ sPc = "done"
    /\ stations[1].historical_data[1].pH # stations[1].historical_data[HistoryDays].pH
    /\ stations[1].water_quality.pH = stations[1].historical_data[HistoryDays].pH

\* an aggregation of several rows a station, the snapshot of the second
\* station carrying the readings of the last row of its slice
C21_WitnessCsv ==
    /\ cPc = "done"
    /\ Len(cStations) >= 2
    /\ Len(cStations[2].historical_data) >= 2
    /\ cStations[2].historical_data[1].pH # cStations[2].water_quality.pH
    /\ cStations[2].last_updated = cStations[2].historical_data[1].Date + 
           Len(cStations[2].historical_data) - 1

\* the historical_data of the first k stations, concatenated in order
RECURSIVE ConcatHistory(_, _)
ConcatHistory(sts, k) ==
    IF k = 0 THEN << >> ELSE ConcatHistory(sts, k - 1) \o sts[k].historical_data

\* C25: processDataIntoStations partitions the rows into per-station slices:
\* the historical_data of the returned stations, concatenated in catalog
\* order, equals the input list, every returned station has a non-empty
\* historical_data, at most 5 stations are returned, and an empty input
\* returns no stations.
C25_RowsPartitioned ==
    /\ \A k \in 1..Len(cStations) : Len(cStations[k].historical_data) >= 1
    /\ \A k \in 1..(Len(cStations) - 1) : cStations[k].location < cStations[k + 1].location
    /\ Len(cStations) <= 5
    /\ cPc = "done" =>
          /\ ConcatHistory(cStations, Len(cStations)) = csvData
          /\ Len(csvData) = 0 => Len(cStations) = 0

\* six rows end up in three stations of two rows each, the last two catalog
\* entries getting none
C25_Witness ==
    /\ cPc = "done"
    /\ Len(csvData) = 6
    /\ Len(cStations) = 3
    /\ Len(cStations[3].historical_data) = 2

----------------------------------------------------------------------------
(* Properties of the charts screen *)

\* C30: after any sequence of handleFilter, nextStation and prevStation calls,
\* selectedStationIndex is a valid index of filteredStations whenever
\* filteredStations is non-empty; nextStation and prevStation wrap around at
\* the ends and are inverses of each other, and both are no-ops when the
\* filtered list is empty.
C30_SelectedIndexValid ==
    LET length == Len(filteredStations)
        next == NextStationIndex(filteredStations, selectedStationIndex)
        prev == PrevStationIndex(filteredStations, selectedStationIndex)
    IN  /\ length > 0 =>
              /\ selectedStationIndex \in 0..(length - 1)
              /\ next \in 0..(length - 1)
              /\ prev \in 0..(length - 1)
              /\ next = (selectedStationIndex + 1) % length
              /\ prev = (selectedStationIndex + length - 1) % length
              /\ PrevStationIndex(filteredStations, next) = selectedStationIndex
              /\ NextStationIndex(filteredStations, prev) = selectedStationIndex
        /\ length = 0 =>
              /\ next = selectedStationIndex
              /\ prev = selectedStationIndex

\* the last of three stations is shown after stepping back from the first:
\* the next step forward wraps to the first again
C30_Witness ==
    /\ Len(filteredStations) = 3
    /\ selectedStationIndex = 2
    /\ NextStationIndex(filteredStations, selectedStationIndex) = 0

----------------------------------------------------------------------------
(* Properties of the predictions screen *)

\* C29: whenever no prediction request is in flight, the displayed
\* predictions are the response to the most recent request, i.e. they belong
\* to the currently selected station and forecastDays, for every
\* interleaving of selection changes and response arrivals (out-of-order,
\* failed and non-OK responses included).
C29_PredictionsMatchSelection ==
    (Len(pRequests) = 0 /\ pSelected # Null) =>
        \A k \in 1..Len(pPredictions) :
            /\ pPredictions[k].station_id = pSelected.station_id
            /\ pPredictions[k].days = pForecastDays

----------------------------------------------------------------------------
(* Properties of the dashboard and the map screen *)

\* a step in which the dashboard's load c gives up after a failed or non-OK
\* fetch, one in which initializeApp gives up after its own, and one in which
\* load c returns after a fully successful load
DashLoadFailed(c) == dLoads[c].pc = "get_an" /\ dLoads'[c].pc = "idle"
DashInitFailed == dInitPc = "post" /\ dInitPc' = "done"
DashLoadSucceeded(c) == dLoads[c].pc = "set_an" /\ dLoads'[c].pc = "idle"

\* the same for the map's loadStations call c
MapLoadFailed(c) == mLoads[c].pc = "get_st" /\ mLoads'[c].pc = "idle"
MapLoadSucceeded(c) == mLoads[c].pc = "set_st" /\ mLoads'[c].pc = "idle"

\* the cache keys are written only with the payload of a load whose fetch
\* succeeded
CacheWrittenOnlyOnSuccess ==
    /\ dStorage' # dStorage =>
          \E c \in DOMAIN dLoads :
              \/ /\ dLoads[c].pc = "json_an"
                 /\ dStorage' = [dStorage EXCEPT !.stations_data = Stringify(dLoads[c].st)]
              \/ /\ dLoads[c].pc = "set_st"
                 /\ dStorage' = [dStorage EXCEPT !.analytics_data = Stringify(dLoads[c].an)]
    /\ mStorage' # mStorage =>
          \E c \in DOMAIN mLoads :
              /\ mLoads[c].pc = "json_st"
              /\ mStorage' = Stringify(mLoads'[c].st)

\* after a failure the cached payload is shown if there is one, and else
\* what was shown before
FailureShowsCache ==
    /\ \A c \in DOMAIN dLoads :
          DashLoadFailed(c) =>
              dStations' = IF dStorage'.stations_data # Null
                           THEN Parse(dStorage'.stations_data) ELSE dStations
    /\ DashInitFailed =>
          dStations' = IF dStorage'.stations_data # Null
                       THEN Parse(dStorage'.stations_data) ELSE dStations
    /\ \A c \in DOMAIN mLoads :
          MapLoadFailed(c) =>
              mStations' = IF mStorage' # Null THEN Parse(mStorage') ELSE mStations

\* after a fully successful load the cached value is the payload displayed
SuccessCachesShown ==
    /\ \A c \in DOMAIN dLoads :
          DashLoadSucceeded(c) => dStorage'.stations_data = Stringify(dStations')
    /\ \A c \in DOMAIN mLoads :
          MapLoadSucceeded(c) => mStorage' = Stringify(mStations')

\* C26: the local cache holds only successfully fetched payloads: in the
\* dashboard and map screens a failed or non-OK fetch never writes to the
\* cache keys; after such a failure the displayed stations are the cached
\* payload if one exists and otherwise are left unchanged, and after a fully
\* successful load the cached value equals the payload just displayed.
C26_CacheHoldsFetchedPayloads ==
    [][CacheWrittenOnlyOnSuccess /\ FailureShowsCache /\ SuccessCachesShown]_vars

\* levels a simulate-update response can report
SimLevels == {500, 5000}

\* C28: once initializeApp has finished (loading is false) with a non-empty
\* station list, every 30-second timer tick issues a simulate-update request
\* for one of the currently loaded stations, and a successful response
\* changes only the current_level of the station whose station_id matches.
C28_TickIssuesUpdate ==
    [][ /\ ( /\ dTicks' = dTicks + 1
             /\ dInitPc = "done"
             /\ ~dLoading
             /\ Len(dStations) > 0 ) =>
              \E k \in 1..Len(dStations) :
                  dSimRequests' = Append(dSimRequests, dStations[k].station_id)
        /\ Len(dSimRequests') < Len(dSimRequests) =>
              \E level \in SimLevels :
                  dStations' = ApplyUpdate(dStations, [station_id |-> dSimRequests[1],
                                                       new_level |-> level])
      ]_vars

====
